---- MODULE Spec2Model ----
(***************************************************************************)
(* Perpulator: the position-chain valuation engine and the handlers that   *)
(* edit a position's entry chain.                                          *)
(*                                                                         *)
(* Numbers.  A JavaScript number is modelled as an exact rational, or NaN, *)
(* or a signed infinity: [k, n, d] with k in {"num", "nan", "inf"}.  For   *)
(* "num" the value is n/d in lowest terms with d > 0; for "inf" n is the   *)
(* sign.  Rounding of IEEE doubles and the sign of zero are not modelled.  *)
(* An absent value (undefined / null) is Undef; the text of an input field *)
(* is Empty, the number it spells, or Garbage.                             *)
(***************************************************************************)
EXTENDS Integers, Sequences, FiniteSets, TLC

----------------------------------------------------------------------------
(* Bounds of the model *)

\* longest entry chain built under Spec
MaxEntries == 3

\* longest entry chain built under SpecRisk
MaxRiskEntries == 2

\* longest entry chain built under SpecAnyOrder
MaxAnyOrderEntries == 2

\* number of price fetches the PriceProvider issues
MaxFetches == 4
MaxProjectEntries == 2

\* the functions of utils/calculations.ts are called with the prices
\* 100, 110, ..., 90 + 10 * MaxPriceSteps
MaxPriceSteps == 3

\* ... the sizes and amounts 1000, ..., 1000 * MaxSizeSteps
MaxSizeSteps == 2

\* ... and the leverages 1, 3/2, 2, ..., MaxHalfLeverages / 2
MaxHalfLeverages == 5

----------------------------------------------------------------------------
(* JavaScript numbers *)

AbsInt(i) == IF i < 0 THEN -i ELSE i

SignInt(i) == IF i < 0 THEN -1 ELSE IF i > 0 THEN 1 ELSE 0

RECURSIVE Gcd(_, _)
Gcd(a, b) == IF b = 0 THEN a ELSE Gcd(b, a % b)

NaN == [k |-> "nan", n |-> 0, d |-> 1]

Undef == [k |-> "undef", n |-> 0, d |-> 1]

Empty == [k |-> "empty", n |-> 0, d |-> 1]

Inf(s) == [k |-> "inf", n |-> s, d |-> 1]

\* the rational n/d (d # 0) in lowest terms
Rat(n, d) ==
    LET g == Gcd(AbsInt(n), AbsInt(d))
        s == IF d < 0 THEN -1 ELSE 1
    IN  [k |-> "num", n |-> s * (n \div g), d |-> s * (d \div g)]

Int2Num(i) == [k |-> "num", n |-> i, d |-> 1]

Zero == Int2Num(0)

One == Int2Num(1)

IsNum(x) == x.k = "num"

Sign(x) == SignInt(x.n)

\* a + b
Add(a, b) ==
    IF a.k = "nan" \/ b.k = "nan" THEN NaN
    ELSE IF a.k = "inf" /\ b.k = "inf" THEN (IF a.n = b.n THEN a ELSE NaN)
    ELSE IF a.k = "inf" THEN a
    ELSE IF b.k = "inf" THEN b
    ELSE LET g == Gcd(a.d, b.d)
         IN  Rat(a.n * (b.d \div g) + b.n * (a.d \div g), (a.d \div g) * b.d)

\* -a
Neg(a) == IF a.k = "nan" THEN NaN ELSE [a EXCEPT !.n = -a.n]

\* a - b
Sub(a, b) == Add(a, Neg(b))

\* a * b
Mul(a, b) ==
    IF a.k = "nan" \/ b.k = "nan" THEN NaN
    ELSE IF a.k = "inf" \/ b.k = "inf"
         THEN (IF Sign(a) = 0 \/ Sign(b) = 0 THEN NaN ELSE Inf(Sign(a) * Sign(b)))
    ELSE LET g1 == Gcd(AbsInt(a.n), b.d)
             g2 == Gcd(AbsInt(b.n), a.d)
         IN  Rat((a.n \div g1) * (b.n \div g2), (a.d \div g2) * (b.d \div g1))

\* a / b
Div(a, b) ==
    IF a.k = "nan" \/ b.k = "nan" THEN NaN
    ELSE IF a.k = "inf"
         THEN (IF b.k = "inf" THEN NaN
               ELSE Inf(Sign(a) * (IF Sign(b) < 0 THEN -1 ELSE 1)))
    ELSE IF b.k = "inf" THEN Zero
    ELSE IF b.n = 0 THEN (IF a.n = 0 THEN NaN ELSE Inf(Sign(a)))
    ELSE LET g1 == Gcd(AbsInt(a.n), AbsInt(b.n))
             g2 == Gcd(b.d, a.d)
         IN  Rat((a.n \div g1) * (b.d \div g2), (a.d \div g2) * (b.n \div g1))

\* Math.abs(a)
Abs(a) == IF a.k = "nan" THEN NaN ELSE [a EXCEPT !.n = AbsInt(a.n)]

\* a < b
Lt(a, b) ==
    IF a.k = "nan" \/ b.k = "nan" THEN FALSE
    ELSE IF a.k = "inf" THEN a.n < 0 /\ ~(b.k = "inf" /\ b.n < 0)
    ELSE IF b.k = "inf" THEN b.n > 0
    ELSE LET g == Gcd(a.d, b.d)
         IN  a.n * (b.d \div g) < b.n * (a.d \div g)

\* a > b
Gt(a, b) == Lt(b, a)

\* a <= b
Le(a, b) == a.k # "nan" /\ b.k # "nan" /\ ~Lt(b, a)

\* Math.max(a, b)
MathMax(a, b) ==
    IF a.k = "nan" \/ b.k = "nan" THEN NaN
    ELSE IF Lt(a, b) THEN b ELSE a

\* the truthiness of a number or of an absent value: 0, NaN and undefined
\* are falsy
Truthy(x) == x.k = "inf" \/ (x.k = "num" /\ x.n # 0)

\* a text that spells no number
Garbage == [k |-> "text", n |-> 0, d |-> 1]

\* the text of the number x followed by characters that are none of a number
Trailing(x) == [x EXCEPT !.k = "trailing"]

\* parseFloat of a text: the number it spells or starts with, else NaN
ParseFloat(s) ==
    IF s.k = "num" THEN s
    ELSE IF s.k = "trailing" THEN [s EXCEPT !.k = "num"]
    ELSE NaN

\* isNaN(x)
IsNaN(x) == x.k = "nan"

\* the truthiness of a string, or of an absent one: the empty string and
\* undefined are falsy
TruthyText(s) == s # Empty /\ s # Undef

----------------------------------------------------------------------------
(* Primitive metric functions (utils/calculations.ts) *)

\* calculateAverageEntryPrice with the plain mean of the two prices for an add
calculateAverageEntryPriceMean(originalSize, originalPrice, adjustmentSize, adjustmentPrice, adjustmentType) ==
    IF adjustmentType = "subtract"
    THEN LET remainingSize == Sub(originalSize, adjustmentSize)
         IN  IF Le(remainingSize, Zero) THEN adjustmentPrice ELSE originalPrice
    ELSE Div(Add(originalPrice, adjustmentPrice), Int2Num(2))

\* calculateAverageEntryPrice with a position closed exactly keeping its price
calculateAverageEntryPriceStrict(originalSize, originalPrice, adjustmentSize, adjustmentPrice, adjustmentType) ==
    IF adjustmentType = "subtract"
    THEN LET remainingSize == Sub(originalSize, adjustmentSize)
         IN  IF Lt(remainingSize, Zero) THEN adjustmentPrice ELSE originalPrice
    ELSE LET totalSize == Add(originalSize, adjustmentSize)
             totalCost == Add(Mul(originalSize, originalPrice),
                              Mul(adjustmentSize, adjustmentPrice))
         IN  Div(totalCost, totalSize)

calculateAverageEntryPrice(originalSize, originalPrice, adjustmentSize, adjustmentPrice, adjustmentType) ==
    IF adjustmentType = "subtract"
    THEN LET remainingSize == Sub(originalSize, adjustmentSize)
         IN  IF Le(remainingSize, Zero) THEN adjustmentPrice ELSE originalPrice
    ELSE LET totalSize == Add(originalSize, adjustmentSize)
             totalCost == Add(Mul(originalSize, originalPrice),
                              Mul(adjustmentSize, adjustmentPrice))
         IN  Div(totalCost, totalSize)

\* calculateRiskAmount with the signed price difference
calculateRiskAmountSigned(entryPrice, stopLoss, positionSize, leverage, direction) ==
    IF ~Truthy(stopLoss) THEN Zero
    ELSE LET notionalSize == Mul(positionSize, leverage)
             priceDifference == Sub(entryPrice, stopLoss)
             riskPercentage == Div(priceDifference, entryPrice)
         IN  Mul(notionalSize, riskPercentage)

calculateRiskAmount(entryPrice, stopLoss, positionSize, leverage, direction) ==
    IF ~Truthy(stopLoss) THEN Zero
    ELSE LET notionalSize == Mul(positionSize, leverage)
             priceDifference == Abs(Sub(entryPrice, stopLoss))
             riskPercentage == Div(priceDifference, entryPrice)
         IN  Mul(notionalSize, riskPercentage)

\* calculateRewardAmount without the check of the target's side
calculateRewardAmountAnySide(entryPrice, targetPrice, positionSize, leverage, direction) ==
    IF ~Truthy(targetPrice) \/ entryPrice = targetPrice THEN Zero
    ELSE LET notionalSize == Mul(positionSize, leverage)
             priceDifference == Abs(Sub(targetPrice, entryPrice))
             rewardPercentage == Div(priceDifference, entryPrice)
         IN  Mul(notionalSize, rewardPercentage)

calculateRewardAmount(entryPrice, targetPrice, positionSize, leverage, direction) ==
    IF ~Truthy(targetPrice) \/ entryPrice = targetPrice THEN Zero
    ELSE LET notionalSize == Mul(positionSize, leverage)
             isValidTarget == IF direction = "long"
                              THEN Gt(targetPrice, entryPrice)
                              ELSE Lt(targetPrice, entryPrice)
             priceDifference == Abs(Sub(targetPrice, entryPrice))
             rewardPercentage == Div(priceDifference, entryPrice)
         IN  IF ~isValidTarget THEN Zero
             ELSE Mul(notionalSize, rewardPercentage)

\* calculateRiskRewardRatio without the guard for a zero risk or reward
calculateRiskRewardRatioUnguarded(risk, reward) == Div(reward, risk)

calculateRiskRewardRatio(risk, reward) ==
    IF risk = Zero \/ reward = Zero THEN Zero ELSE Div(reward, risk)

\* calculateLiquidationPrice without the case of leverage 1
calculateLiquidationPriceNoGuard(entryPrice, leverage, direction) ==
    LET liquidationMultiplier == Div(One, leverage)
    IN  IF direction = "long"
        THEN Mul(entryPrice, Sub(One, liquidationMultiplier))
        ELSE Mul(entryPrice, Add(One, liquidationMultiplier))

\* calculateLiquidationPrice with the two directions exchanged
calculateLiquidationPriceSwapped(entryPrice, leverage, direction) ==
    IF leverage = One THEN Zero
    ELSE LET liquidationMultiplier == Div(One, leverage)
         IN  IF direction = "short"
             THEN Mul(entryPrice, Sub(One, liquidationMultiplier))
             ELSE Mul(entryPrice, Add(One, liquidationMultiplier))

calculateLiquidationPrice(entryPrice, leverage, direction) ==
    IF leverage = One THEN Zero
    ELSE LET liquidationMultiplier == Div(One, leverage)
         IN  IF direction = "long"
             THEN Mul(entryPrice, Sub(One, liquidationMultiplier))
             ELSE Mul(entryPrice, Add(One, liquidationMultiplier))

----------------------------------------------------------------------------
(* Chain aggregator: the totals memo of PositionAdjustment *)

\* the first loop of totals counting only the add entries as opening volume
RECURSIVE TotalsSumPassAddOnly(_, _, _)
TotalsSumPassAddOnly(es, i, acc) ==
    IF i > Len(es) THEN acc
    ELSE LET entry == es[i]
         IN  IF entry.type = "subtract"
             THEN TotalsSumPassAddOnly(es, i + 1,
                    [acc EXCEPT !.closedSize = Add(@, entry.size)])
             ELSE IF entry.type = "add"
             THEN TotalsSumPassAddOnly(es, i + 1,
                    [acc EXCEPT
                       !.openSize = Add(@, entry.size),
                       !.openLeveragedCapital = Add(@, Mul(entry.size, entry.leverage)),
                       !.openWeightedEntryPrice = Add(@, Mul(entry.size, entry.entryPrice))])
             ELSE TotalsSumPassAddOnly(es, i + 1, acc)

\* first loop of totals: open and closed volume
RECURSIVE TotalsSumPass(_, _, _)
TotalsSumPass(es, i, acc) ==
    IF i > Len(es) THEN acc
    ELSE LET entry == es[i]
         IN  IF entry.type = "subtract"
             THEN TotalsSumPass(es, i + 1,
                    [acc EXCEPT !.closedSize = Add(@, entry.size)])
             ELSE TotalsSumPass(es, i + 1,
                    [acc EXCEPT
                       !.openSize = Add(@, entry.size),
                       !.openLeveragedCapital = Add(@, Mul(entry.size, entry.leverage)),
                       !.openWeightedEntryPrice = Add(@, Mul(entry.size, entry.entryPrice))])

\* the second loop of totals with the partly closed lot not ending the
\* allocation (closedRemaining is left as it is)
RECURSIVE TotalsFifoPassKeepsClosing(_, _, _)
TotalsFifoPassKeepsClosing(es, i, acc) ==
    IF i > Len(es) THEN acc
    ELSE LET entry == es[i]
         IN  IF entry.type = "subtract" THEN TotalsFifoPassKeepsClosing(es, i + 1, acc)
             ELSE IF Le(acc.closedRemaining, Zero)
             THEN TotalsFifoPassKeepsClosing(es, i + 1,
                    [acc EXCEPT
                       !.remainingWeightedEntryPrice = Add(@, Mul(entry.size, entry.entryPrice)),
                       !.remainingLeveragedCapital = Add(@, Mul(entry.size, entry.leverage))])
             ELSE IF Lt(acc.closedRemaining, entry.size)
             THEN LET remainingFromThisEntry == Sub(entry.size, acc.closedRemaining)
                  IN  TotalsFifoPassKeepsClosing(es, i + 1,
                        [acc EXCEPT
                           !.remainingWeightedEntryPrice =
                              Add(@, Mul(remainingFromThisEntry, entry.entryPrice)),
                           !.remainingLeveragedCapital =
                              Add(@, Mul(remainingFromThisEntry, entry.leverage))])
             ELSE TotalsFifoPassKeepsClosing(es, i + 1,
                    [acc EXCEPT !.closedRemaining = Sub(@, entry.size)])

\* second loop of totals: FIFO allocation of the closed volume
RECURSIVE TotalsFifoPass(_, _, _)
TotalsFifoPass(es, i, acc) ==
    IF i > Len(es) THEN acc
    ELSE LET entry == es[i]
         IN  IF entry.type = "subtract" THEN TotalsFifoPass(es, i + 1, acc)
             ELSE IF Le(acc.closedRemaining, Zero)
             THEN TotalsFifoPass(es, i + 1,
                    [acc EXCEPT
                       !.remainingWeightedEntryPrice = Add(@, Mul(entry.size, entry.entryPrice)),
                       !.remainingLeveragedCapital = Add(@, Mul(entry.size, entry.leverage))])
             ELSE IF Lt(acc.closedRemaining, entry.size)
             THEN LET remainingFromThisEntry == Sub(entry.size, acc.closedRemaining)
                  IN  TotalsFifoPass(es, i + 1,
                        [closedRemaining |-> Zero,
                         remainingWeightedEntryPrice |->
                            Add(acc.remainingWeightedEntryPrice,
                                Mul(remainingFromThisEntry, entry.entryPrice)),
                         remainingLeveragedCapital |->
                            Add(acc.remainingLeveragedCapital,
                                Mul(remainingFromThisEntry, entry.leverage))])
             ELSE TotalsFifoPass(es, i + 1,
                    [acc EXCEPT !.closedRemaining = Sub(@, entry.size)])

SumInit ==
    [openSize |-> Zero, openLeveragedCapital |-> Zero,
     openWeightedEntryPrice |-> Zero, closedSize |-> Zero]

FifoInit(closedSize) ==
    [closedRemaining |-> closedSize, remainingWeightedEntryPrice |-> Zero,
     remainingLeveragedCapital |-> Zero]

\* totals without the clamp of the remaining size at zero
totalsUnclamped(es) ==
    LET sums == TotalsSumPass(es, 1, SumInit)
        remainingSize == Sub(sums.openSize, sums.closedSize)
        fifo == TotalsFifoPass(es, 1, FifoInit(sums.closedSize))
        averageEntryPrice ==
            IF remainingSize # Zero
            THEN Div(fifo.remainingWeightedEntryPrice, remainingSize) ELSE Zero
        averageLeverage ==
            IF remainingSize # Zero
            THEN Div(fifo.remainingLeveragedCapital, remainingSize) ELSE One
    IN  [totalSize |-> remainingSize,
         totalCapital |-> remainingSize,
         totalLeveragedCapital |-> fifo.remainingLeveragedCapital,
         averageEntryPrice |-> Abs(averageEntryPrice),
         averageLeverage |-> Abs(averageLeverage)]

\* totals with the leverage of a closed position falling back to 0, as the
\* price does
totalsLeverageZero(es) ==
    LET sums == TotalsSumPass(es, 1, SumInit)
        remainingSize == MathMax(Sub(sums.openSize, sums.closedSize), Zero)
        fifo == TotalsFifoPass(es, 1, FifoInit(sums.closedSize))
        averageEntryPrice ==
            IF remainingSize # Zero
            THEN Div(fifo.remainingWeightedEntryPrice, remainingSize) ELSE Zero
        averageLeverage ==
            IF remainingSize # Zero
            THEN Div(fifo.remainingLeveragedCapital, remainingSize) ELSE Zero
    IN  [totalSize |-> remainingSize,
         totalCapital |-> remainingSize,
         totalLeveragedCapital |-> fifo.remainingLeveragedCapital,
         averageEntryPrice |-> Abs(averageEntryPrice),
         averageLeverage |-> Abs(averageLeverage)]

\* totals with the averages taken over the whole opened volume
totalsOverOpenSize(es) ==
    LET sums == TotalsSumPass(es, 1, SumInit)
        remainingSize == MathMax(Sub(sums.openSize, sums.closedSize), Zero)
        fifo == TotalsFifoPass(es, 1, FifoInit(sums.closedSize))
        averageEntryPrice ==
            IF remainingSize # Zero
            THEN Div(fifo.remainingWeightedEntryPrice, sums.openSize) ELSE Zero
        averageLeverage ==
            IF remainingSize # Zero
            THEN Div(fifo.remainingLeveragedCapital, sums.openSize) ELSE One
    IN  [totalSize |-> remainingSize,
         totalCapital |-> remainingSize,
         totalLeveragedCapital |-> fifo.remainingLeveragedCapital,
         averageEntryPrice |-> Abs(averageEntryPrice),
         averageLeverage |-> Abs(averageLeverage)]

\* totals, as a function of position.entries
totals(es) ==
    LET sums == TotalsSumPass(es, 1, SumInit)
        remainingSize == MathMax(Sub(sums.openSize, sums.closedSize), Zero)
        fifo == TotalsFifoPass(es, 1, FifoInit(sums.closedSize))
        averageEntryPrice ==
            IF remainingSize # Zero
            THEN Div(fifo.remainingWeightedEntryPrice, remainingSize) ELSE Zero
        averageLeverage ==
            IF remainingSize # Zero
            THEN Div(fifo.remainingLeveragedCapital, remainingSize) ELSE One
    IN  [totalSize |-> remainingSize,
         totalCapital |-> remainingSize,
         totalLeveragedCapital |-> fifo.remainingLeveragedCapital,
         averageEntryPrice |-> Abs(averageEntryPrice),
         averageLeverage |-> Abs(averageLeverage)]

----------------------------------------------------------------------------
(* P&L (utils/calculations.ts) *)

\* calculatePNL without the direction multiplier
calculatePNLUnsigned(entryPrice, currentPrice, positionSize, leverage, direction) ==
    LET priceDifference == Sub(currentPrice, entryPrice)
    IN  [pnl |-> Mul(Mul(positionSize, Div(priceDifference, entryPrice)), leverage),
         pnlPercentage |-> Mul(Mul(Div(priceDifference, entryPrice), Int2Num(100)),
                               leverage)]

calculatePNL(entryPrice, currentPrice, positionSize, leverage, direction) ==
    LET priceDifference == Sub(currentPrice, entryPrice)
        direction_multiplier == IF direction = "long" THEN One ELSE Int2Num(-1)
    IN  [pnl |-> Mul(Mul(Mul(positionSize, Div(priceDifference, entryPrice)),
                         direction_multiplier), leverage),
         pnlPercentage |-> Mul(Mul(Mul(Div(priceDifference, entryPrice), Int2Num(100)),
                                   direction_multiplier), leverage)]

----------------------------------------------------------------------------
(* Projection of a proposed adjustment (PositionAdjustment) *)

\* no proposal (null)
NoAdjustment == [type |-> "none"]

\* form: the adjustment form's fields (adjustmentType, sizeInputMode and the
\* texts of newEntryPrice, adjustmentSizeUSD, adjustmentSizePercent,
\* adjustmentLeverage, stopLossPrice, takeProfitPrice)
actualAdjustmentSizeUSD(form, es) ==
    IF form.sizeInputMode = "percent" /\ TruthyText(form.adjustmentSizePercent)
    THEN Mul(Div(ParseFloat(form.adjustmentSizePercent), Int2Num(100)),
             totals(es).totalSize)
    ELSE LET usd == ParseFloat(form.adjustmentSizeUSD)
         IN  IF Truthy(usd) THEN usd ELSE Zero

\* leverageForProposal taking the leverage input for a reduction too
leverageForProposalTyped(form, es) ==
    IF TruthyText(form.adjustmentLeverage)
    THEN ParseFloat(form.adjustmentLeverage) ELSE Undef

leverageForProposal(form, es) ==
    IF form.adjustmentType = "subtract" THEN totals(es).averageLeverage
    ELSE IF TruthyText(form.adjustmentLeverage)
         THEN ParseFloat(form.adjustmentLeverage) ELSE Undef

proposedAdjustment(form, es) ==
    IF /\ Truthy(actualAdjustmentSizeUSD(form, es))
       /\ TruthyText(form.newEntryPrice)
       /\ Truthy(leverageForProposal(form, es))
    THEN [type |-> form.adjustmentType,
          newEntryPrice |-> ParseFloat(form.newEntryPrice),
          adjustmentSize |-> actualAdjustmentSizeUSD(form, es),
          adjustmentLeverage |-> leverageForProposal(form, es),
          takeProfit |-> IF TruthyText(form.takeProfitPrice)
                         THEN ParseFloat(form.takeProfitPrice) ELSE Undef]
    ELSE NoAdjustment

\* the entry a proposal stands for
AdjustmentEntry(adj) ==
    [entryPrice |-> adj.newEntryPrice, size |-> adj.adjustmentSize,
     leverage |-> adj.adjustmentLeverage, type |-> adj.type]

\* projectedPosition.entries with the proposal always counted as opening volume
projectedPositionAsAdd(es, adj) ==
    IF adj # NoAdjustment
    THEN Append(es, [AdjustmentEntry(adj) EXCEPT !.type = "add"]) ELSE es

\* projectedPosition.entries
projectedPosition(es, adj) ==
    IF adj # NoAdjustment THEN Append(es, AdjustmentEntry(adj)) ELSE es

\* the position object once projectedPosition is formed by pushing the
\* proposal's entry onto position.entries
positionAfterPush(pos, adj) ==
    IF adj # NoAdjustment
    THEN [pos EXCEPT !.entries = Append(@, AdjustmentEntry(adj))] ELSE pos

\* the position object once projectedPosition is formed: the spreads copy
\* the object and its entries, and nothing is assigned to position
positionAfterProjection(pos, adj) == pos

\* first loop of projected
RECURSIVE ProjectedSumPass(_, _, _)
ProjectedSumPass(es, i, acc) ==
    IF i > Len(es) THEN acc
    ELSE LET entry == es[i]
         IN  IF entry.type = "subtract"
             THEN ProjectedSumPass(es, i + 1,
                    [acc EXCEPT !.closedSize = Add(@, entry.size)])
             ELSE ProjectedSumPass(es, i + 1,
                    [acc EXCEPT
                       !.openSize = Add(@, entry.size),
                       !.openLeveragedCapital = Add(@, Mul(entry.size, entry.leverage)),
                       !.openWeightedEntryPrice = Add(@, Mul(entry.size, entry.entryPrice))])

\* second loop of projected
RECURSIVE ProjectedFifoPass(_, _, _)
ProjectedFifoPass(es, i, acc) ==
    IF i > Len(es) THEN acc
    ELSE LET entry == es[i]
         IN  IF entry.type = "subtract" THEN ProjectedFifoPass(es, i + 1, acc)
             ELSE IF Le(acc.closedRemaining, Zero)
             THEN ProjectedFifoPass(es, i + 1,
                    [acc EXCEPT
                       !.remainingWeightedEntryPrice = Add(@, Mul(entry.size, entry.entryPrice)),
                       !.remainingLeveragedCapital = Add(@, Mul(entry.size, entry.leverage))])
             ELSE IF Lt(acc.closedRemaining, entry.size)
             THEN LET remainingFromThisEntry == Sub(entry.size, acc.closedRemaining)
                  IN  ProjectedFifoPass(es, i + 1,
                        [closedRemaining |-> Zero,
                         remainingWeightedEntryPrice |->
                            Add(acc.remainingWeightedEntryPrice,
                                Mul(remainingFromThisEntry, entry.entryPrice)),
                         remainingLeveragedCapital |->
                            Add(acc.remainingLeveragedCapital,
                                Mul(remainingFromThisEntry, entry.leverage))])
             ELSE ProjectedFifoPass(es, i + 1,
                    [acc EXCEPT !.closedRemaining = Sub(@, entry.size)])

\* projected, as a function of projectedPosition.entries, position.stopLoss,
\* position.sideEntry, the take-profit field and the live price (Undef when
\* no price has arrived)
projected(pes, stopLoss, sideEntry, takeProfitPrice, livePrice) ==
    LET sums == ProjectedSumPass(pes, 1, SumInit)
        totalSize == MathMax(Sub(sums.openSize, sums.closedSize), Zero)
        fifo == ProjectedFifoPass(pes, 1, FifoInit(sums.closedSize))
        averageEntryPrice ==
            IF totalSize # Zero
            THEN Div(fifo.remainingWeightedEntryPrice, totalSize) ELSE Zero
        avgLeverage ==
            IF totalSize # Zero
            THEN Abs(Div(fifo.remainingLeveragedCapital, totalSize)) ELSE One
        riskAmount ==
            calculateRiskAmount(Abs(averageEntryPrice), stopLoss, Abs(totalSize),
                                avgLeverage, sideEntry)
        rewardAmount ==
            IF TruthyText(takeProfitPrice)
            THEN calculateRewardAmount(Abs(averageEntryPrice), ParseFloat(takeProfitPrice),
                                       Abs(totalSize), avgLeverage, sideEntry)
            ELSE IF Truthy(stopLoss) THEN Mul(riskAmount, Int2Num(2))
            ELSE Zero
        riskRewardRatio == calculateRiskRewardRatio(riskAmount, rewardAmount)
        liquidationPrice ==
            calculateLiquidationPrice(Abs(averageEntryPrice), avgLeverage, sideEntry)
        pnlCalc == calculatePNL(Abs(averageEntryPrice), livePrice, Abs(totalSize),
                                avgLeverage, sideEntry)
    IN  [totalSize |-> Abs(totalSize),
         averageEntryPrice |-> Abs(averageEntryPrice),
         avgLeverage |-> avgLeverage,
         riskAmount |-> riskAmount,
         rewardAmount |-> rewardAmount,
         riskRewardRatio |-> riskRewardRatio,
         liquidationPrice |-> IF Gt(liquidationPrice, Zero) THEN liquidationPrice ELSE Undef,
         pnlPercentage |-> IF Truthy(livePrice) THEN pnlCalc.pnlPercentage ELSE Undef,
         pnlUSD |-> IF Truthy(livePrice) THEN pnlCalc.pnl ELSE Undef]

\* originalMetrics: the metrics of the position as it stands
originalMetrics(es, stopLoss, sideEntry, stopLossPrice, takeProfitPrice, livePrice) ==
    LET t == totals(es)
        effectiveStopLoss ==
            IF TruthyText(stopLossPrice) THEN ParseFloat(stopLossPrice) ELSE stopLoss
        riskAmount ==
            calculateRiskAmount(t.averageEntryPrice, effectiveStopLoss, t.totalSize,
                                t.averageLeverage, sideEntry)
        rewardAmount ==
            IF TruthyText(takeProfitPrice)
            THEN calculateRewardAmount(t.averageEntryPrice, ParseFloat(takeProfitPrice),
                                       t.totalSize, t.averageLeverage, sideEntry)
            ELSE IF Truthy(stopLoss) THEN Mul(riskAmount, Int2Num(2))
            ELSE Zero
        liquidationPrice ==
            calculateLiquidationPrice(t.averageEntryPrice, t.averageLeverage, sideEntry)
        pnlCalc == calculatePNL(t.averageEntryPrice, livePrice, t.totalSize,
                                t.averageLeverage, sideEntry)
    IN  IF Le(t.totalSize, Zero)
        THEN [riskAmount |-> Zero, rewardAmount |-> Zero, riskRewardRatio |-> Zero,
              liquidationPrice |-> Undef, pnlPercentage |-> Undef, pnlUSD |-> Undef]
        ELSE [riskAmount |-> riskAmount,
              rewardAmount |-> rewardAmount,
              riskRewardRatio |-> calculateRiskRewardRatio(riskAmount, rewardAmount),
              liquidationPrice |->
                  IF Gt(liquidationPrice, Zero) THEN liquidationPrice ELSE Undef,
              pnlPercentage |-> IF Truthy(livePrice) THEN pnlCalc.pnlPercentage ELSE Undef,
              pnlUSD |-> IF Truthy(livePrice) THEN pnlCalc.pnl ELSE Undef]

----------------------------------------------------------------------------
(* calculateAdjustedPosition (utils/calculations.ts) *)

\* the signed size of an entry: negative for a subtract
SignedSize(type, size) == IF type = "subtract" THEN Neg(size) ELSE size

\* the loop over originalPosition.entries
RECURSIVE AdjustedSumPass(_, _, _)
AdjustedSumPass(es, i, acc) ==
    IF i > Len(es) THEN acc
    ELSE LET entry == es[i]
             signed == SignedSize(entry.type, entry.size)
         IN  AdjustedSumPass(es, i + 1,
               [totalSize |-> Add(acc.totalSize, signed),
                totalLeveragedCapital |->
                    Add(acc.totalLeveragedCapital, Mul(signed, entry.leverage)),
                weightedEntryPrice |->
                    Add(acc.weightedEntryPrice, Mul(signed, entry.entryPrice))])

\* effectiveTP reading the position's take-profit only
effectiveTPOfPosition(originalPosition, adjustment) == originalPosition.takeProfit

\* effectiveTP of calculateAdjustedPosition
effectiveTP(originalPosition, adjustment) ==
    IF adjustment.takeProfit # Undef THEN adjustment.takeProfit
    ELSE originalPosition.takeProfit

\* priceForCalc falling back to the first entry's price when no price is known
priceForCalcOrEntry(originalPosition, currentPrice) ==
    IF currentPrice # Undef THEN currentPrice
    ELSE IF originalPosition.currentPrice # Undef THEN originalPosition.currentPrice
    ELSE originalPosition.entries[1].entryPrice

\* priceForCalc of calculateAdjustedPosition
priceForCalc(originalPosition, currentPrice) ==
    IF currentPrice # Undef THEN currentPrice ELSE originalPosition.currentPrice

\* originalPosition: [entries, stopLoss, takeProfit, currentPrice, sideEntry]
calculateAdjustedPosition(originalPosition, adjustment, currentPrice) ==
    LET sums == AdjustedSumPass(originalPosition.entries, 1,
                    [totalSize |-> Zero, totalLeveragedCapital |-> Zero,
                     weightedEntryPrice |-> Zero])
        signed == IF adjustment.type = "add" THEN adjustment.adjustmentSize
                  ELSE Neg(adjustment.adjustmentSize)
        totalSize == Add(sums.totalSize, signed)
        totalLeveragedCapital ==
            Add(sums.totalLeveragedCapital, Mul(signed, adjustment.adjustmentLeverage))
        weightedEntryPrice ==
            Add(sums.weightedEntryPrice, Mul(signed, adjustment.newEntryPrice))
        newAverageEntryPrice ==
            IF totalSize # Zero THEN Abs(Div(weightedEntryPrice, totalSize)) ELSE Zero
        newAverageLeverage ==
            IF totalSize # Zero THEN Abs(Div(totalLeveragedCapital, totalSize)) ELSE One
        tp == effectiveTP(originalPosition, adjustment)
        price == priceForCalc(originalPosition, currentPrice)
        sideEntry == originalPosition.sideEntry
        riskAmount ==
            calculateRiskAmount(newAverageEntryPrice, originalPosition.stopLoss,
                                Abs(totalSize), newAverageLeverage, sideEntry)
        rewardAmount ==
            IF Truthy(tp)
            THEN calculateRewardAmount(newAverageEntryPrice, tp, Abs(totalSize),
                                       newAverageLeverage, sideEntry)
            ELSE Zero
        pnlCalc == calculatePNL(newAverageEntryPrice, price, Abs(totalSize),
                                newAverageLeverage, sideEntry)
        liquidationPrice ==
            calculateLiquidationPrice(newAverageEntryPrice, newAverageLeverage, sideEntry)
    IN  [averageEntryPrice |-> newAverageEntryPrice,
         totalSize |-> Abs(totalSize),
         totalCapital |-> Abs(totalSize),
         riskAmount |-> riskAmount,
         rewardAmount |-> rewardAmount,
         riskRewardRatio |-> calculateRiskRewardRatio(riskAmount, rewardAmount),
         pnl |-> IF Truthy(price) THEN pnlCalc.pnl ELSE Undef,
         pnlPercentage |-> IF Truthy(price) THEN pnlCalc.pnlPercentage ELSE Undef,
         liquidationPrice |->
             IF Gt(liquidationPrice, Zero) THEN liquidationPrice ELSE Undef]

----------------------------------------------------------------------------
(* Realized P&L of a reduce entry (the chain history rows) *)

\* the loop over the entries before the row
RECURSIVE PrevPass(_, _, _, _)
PrevPass(es, i, idx, acc) ==
    IF i >= idx THEN acc
    ELSE LET signed == SignedSize(es[i].type, es[i].size)
         IN  PrevPass(es, i + 1, idx,
               [prevTotalSize |-> Add(acc.prevTotalSize, signed),
                prevWeightedEntryPrice |->
                    Add(acc.prevWeightedEntryPrice, Mul(signed, es[i].entryPrice))])

\* prevAvgEntry of the row at position idx (1-based) of the chain
prevAvgEntry(es, idx) ==
    LET prev == PrevPass(es, 1, idx,
                    [prevTotalSize |-> Zero, prevWeightedEntryPrice |-> Zero])
    IN  IF prev.prevTotalSize # Zero
        THEN Div(prev.prevWeightedEntryPrice, prev.prevTotalSize)
        ELSE es[idx].entryPrice

\* entryPNL and entryPNLPercent of the subtract row at position idx
entryPNL(es, idx, sideEntry) ==
    LET entry == es[idx]
        priceDiff == Sub(entry.entryPrice, prevAvgEntry(es, idx))
        dir == IF sideEntry = "long" THEN One ELSE Int2Num(-1)
        ratio == Div(priceDiff, prevAvgEntry(es, idx))
    IN  [entryPNLPercent |-> Mul(Mul(Mul(ratio, Int2Num(100)), dir), entry.leverage),
         entryPNL |-> Mul(Mul(Mul(entry.size, ratio), dir), entry.leverage)]

\* the remaining position at the subtract row at position idx (1-based), for
\* its "current PNL of remaining"
remainingAtRow(es, idx) ==
    LET sums == TotalsSumPass(SubSeq(es, 1, idx), 1, SumInit)
        remainingSize == MathMax(Sub(sums.openSize, sums.closedSize), Zero)
        scaleFactor == Div(remainingSize, sums.openSize)
    IN  IF Gt(sums.openSize, Zero) /\ Gt(remainingSize, Zero)
        THEN [remainingSize |-> remainingSize,
              remainingAvgEntry |->
                  Div(Mul(sums.openWeightedEntryPrice, scaleFactor), remainingSize),
              remainingLeverage |->
                  Div(Mul(sums.openLeveragedCapital, scaleFactor), remainingSize)]
        ELSE [remainingSize |-> remainingSize, remainingAvgEntry |-> Zero,
              remainingLeverage |-> One]

----------------------------------------------------------------------------
(* Validation of the position form (utils/validation.ts) *)

\* the error of a required numeric field, as a sequence of at most one error
RequiredError(field, text, lowOk, highOk) ==
    LET v == ParseFloat(text)
    IN  IF ~TruthyText(text) \/ IsNaN(v) THEN <<[field |-> field, message |-> "required"]>>
        ELSE IF ~lowOk THEN <<[field |-> field, message |-> "too low"]>>
        ELSE IF ~highOk THEN <<[field |-> field, message |-> "too high"]>>
        ELSE << >>

\* the error of an optional price field that only has to be a number
OptionalErrorAnySign(field, text) ==
    LET v == ParseFloat(text)
    IN  IF ~TruthyText(text) THEN << >>
        ELSE IF IsNaN(v) THEN <<[field |-> field, message |-> "not a number"]>>
        ELSE << >>

\* the error of an optional price field
OptionalError(field, text) ==
    LET v == ParseFloat(text)
    IN  IF ~TruthyText(text) THEN << >>
        ELSE IF IsNaN(v) THEN <<[field |-> field, message |-> "not a number"]>>
        ELSE IF Le(v, Zero) THEN <<[field |-> field, message |-> "too low"]>>
        ELSE << >>

validatePositionInput(entryPrice, positionSize, leverage, stopLoss, takeProfit) ==
    LET entry == ParseFloat(entryPrice)
        size == ParseFloat(positionSize)
        lev == ParseFloat(leverage)
    IN  RequiredError("entryPrice", entryPrice,
                      ~Le(entry, Zero), ~Gt(entry, Int2Num(1000000)))
        \o RequiredError("positionSize", positionSize,
                         ~Le(size, Zero), ~Gt(size, Int2Num(1000000)))
        \o RequiredError("leverage", leverage,
                         ~Lt(lev, One), ~Gt(lev, Int2Num(50)))
        \o OptionalError("stopLoss", stopLoss)
        \o OptionalError("takeProfit", takeProfit)

----------------------------------------------------------------------------
(* The handlers, as functions of the position they are given *)

\* no position (null)
Null == [k |-> "null"]

\* symbol.toUpperCase()
ToUpperCase(symbol) == IF symbol = "btc" THEN "BTC" ELSE symbol

\* the position handleSubmit builds from the form
\* f: [symbol, direction, entryPrice, positionSizeUSD, leverage, stopLoss,
\*     takeProfit]
handleSubmit(f, livePrice) ==
    [symbol |-> ToUpperCase(f.symbol),
     sideEntry |-> f.direction,
     entries |-> <<[entryPrice |-> ParseFloat(f.entryPrice),
                    size |-> ParseFloat(f.positionSizeUSD),
                    leverage |-> ParseFloat(f.leverage),
                    type |-> "initial"]>>,
     stopLoss |-> IF TruthyText(f.stopLoss) THEN ParseFloat(f.stopLoss) ELSE Undef,
     takeProfit |-> IF TruthyText(f.takeProfit) THEN ParseFloat(f.takeProfit) ELSE Undef,
     currentPrice |-> livePrice]

\* updatedPosition of handleApplyAdjustment; pos is unchanged without a proposal
handleApplyAdjustment(pos, form, livePrice) ==
    LET adj == proposedAdjustment(form, pos.entries)
    IN  IF adj = NoAdjustment THEN pos
        ELSE [pos EXCEPT
                !.entries = Append(pos.entries, AdjustmentEntry(adj)),
                !.stopLoss = IF TruthyText(form.stopLossPrice)
                             THEN ParseFloat(form.stopLossPrice) ELSE pos.stopLoss,
                !.takeProfit = IF Truthy(adj.takeProfit)
                               THEN adj.takeProfit ELSE pos.takeProfit,
                !.currentPrice = livePrice]

\* the filter dropping the entry at index and every entry after it
FilterOutFrom(es, index) == SubSeq(es, 1, index)

\* entries.filter((_, i) => i !== index), index counted from 0
FilterOut(es, index) ==
    SubSeq(es, 1, index) \o SubSeq(es, index + 2, Len(es))

\* handleRemoveEntry without the guard for the initial entry
handleRemoveEntryUnguarded(pos, index) ==
    [pos EXCEPT !.entries = FilterOut(pos.entries, index)]

\* updatedPosition of handleRemoveEntry; index counted from 0
handleRemoveEntry(pos, index) ==
    IF index = 0 THEN pos
    ELSE [pos EXCEPT !.entries = FilterOut(pos.entries, index)]

\* updatedPosition of handleSaveEdit
\* editingEntry: [index, entryPrice, size, leverage], index counted from 0
handleSaveEdit(pos, editingEntry) ==
    LET entryPrice == ParseFloat(editingEntry.entryPrice)
        size == ParseFloat(editingEntry.size)
        leverage == ParseFloat(editingEntry.leverage)
    IN  IF ~Truthy(entryPrice) \/ ~Truthy(size) \/ ~Truthy(leverage) THEN pos
        ELSE [pos EXCEPT
                !.entries[editingEntry.index + 1] =
                    [@ EXCEPT !.entryPrice = entryPrice, !.size = size,
                              !.leverage = leverage]]

----------------------------------------------------------------------------
(* What the user types *)

T(i) == Int2Num(i)

\* price, size and leverage typed for an entry
OrderInputs ==
    { [entryPrice |-> T(100), size |-> T(1000), leverage |-> T(2)],
      [entryPrice |-> T(110), size |-> T(1000), leverage |-> T(1)],
      [entryPrice |-> T(110), size |-> T(500), leverage |-> T(2)] }

\* the same with one field left blank
BlankPrice == [entryPrice |-> Empty, size |-> T(1000), leverage |-> T(1)]

BlankSize == [entryPrice |-> T(100), size |-> Empty, leverage |-> T(1)]

BlankLeverage == [entryPrice |-> T(100), size |-> T(1000), leverage |-> Empty]

\* orders the number inputs also accept: a leverage below 1, and a negative
\* price and size
HalfLeverage == [entryPrice |-> T(100), size |-> T(1000), leverage |-> Rat(1, 2)]

NegativeOrder == [entryPrice |-> T(-100), size |-> T(-500), leverage |-> T(2)]

AnyOrderInputs == OrderInputs \cup {HalfLeverage, NegativeOrder}

\* stop-loss and take-profit texts
NoLevelInputs == {Empty}

LevelInputs == {Empty, T(105)}

\* percentages typed in percent mode, which the model's user enters only to
\* reduce the position
NoPercentInputs == {}

PercentInputs == {T(100)}

Directions == {"long", "short"}

\* the adjustment form filled in, with the orders the user may type
AdjustmentForms(orders, levels, percents) ==
    { [adjustmentType |-> t, newEntryPrice |-> o.entryPrice,
       adjustmentSizeUSD |-> o.size, adjustmentSizePercent |-> Empty,
       sizeInputMode |-> "usd", adjustmentLeverage |-> o.leverage,
       stopLossPrice |-> sl, takeProfitPrice |-> tp] :
          t \in {"add", "subtract"},
          o \in orders \cup {BlankPrice, BlankLeverage},
          sl \in levels, tp \in levels }
    \cup
    { [adjustmentType |-> t, newEntryPrice |-> o.entryPrice,
       adjustmentSizeUSD |-> Empty, adjustmentSizePercent |-> pct,
       sizeInputMode |-> "percent", adjustmentLeverage |-> o.leverage,
       stopLossPrice |-> sl, takeProfitPrice |-> tp] :
          t \in {"subtract"}, o \in orders, pct \in percents,
          sl \in levels, tp \in levels }

\* the position form filled in
PositionForms(levels) ==
    { [symbol |-> "btc", direction |-> dir, entryPrice |-> o.entryPrice,
       positionSizeUSD |-> o.size,
       leverage |-> o.leverage, stopLoss |-> sl, takeProfit |-> tp] :
          dir \in Directions, o \in OrderInputs \cup {BlankPrice},
          sl \in levels, tp \in levels }

----------------------------------------------------------------------------
(* The arguments the functions of utils/calculations.ts are called with *)

CalcPrices == { T(90 + 10 * k) : k \in 1..MaxPriceSteps }

CalcSizes == { T(1000 * k) : k \in 1..MaxSizeSteps }

CalcLeverages == { Rat(k, 2) : k \in 2..MaxHalfLeverages }

\* a stop-loss or target: a price, 0, or none
CalcLevels == CalcPrices \cup {Zero, Undef}

\* a risk or reward amount
CalcAmounts == CalcSizes \cup {Zero}

\* a position of one entry, without levels
CalcPositions ==
    { [sideEntry |-> dir,
       entries |-> <<[entryPrice |-> p, size |-> sz, leverage |-> lev,
                      type |-> "initial"]>>,
       stopLoss |-> Undef, takeProfit |-> Undef, currentPrice |-> Undef] :
          dir \in Directions, p \in CalcPrices, sz \in CalcSizes,
          lev \in CalcLeverages }

\* a PositionAdjustment without a take-profit of its own
CalcAdjustments ==
    { [type |-> t, newEntryPrice |-> p, adjustmentSize |-> sz,
       adjustmentLeverage |-> lev, takeProfit |-> Undef] :
          t \in {"add", "subtract"}, p \in CalcPrices, sz \in CalcSizes,
          lev \in CalcLeverages }

Calls ==
    { [fn |-> "calculateAverageEntryPrice", originalSize |-> s1, originalPrice |-> p1,
       adjustmentSize |-> s2, adjustmentPrice |-> p2, adjustmentType |-> t] :
          s1 \in CalcSizes, p1 \in CalcPrices, s2 \in CalcSizes, p2 \in CalcPrices,
          t \in {"add", "subtract"} }
    \cup
    { [fn |-> "calculateRiskAmount", entryPrice |-> p, stopLoss |-> sl,
       positionSize |-> sz, leverage |-> lev, direction |-> dir] :
          p \in CalcPrices, sl \in CalcLevels, sz \in CalcSizes,
          lev \in CalcLeverages, dir \in Directions }
    \cup
    { [fn |-> "calculateRewardAmount", entryPrice |-> p, targetPrice |-> tp,
       positionSize |-> sz, leverage |-> lev, direction |-> dir] :
          p \in CalcPrices, tp \in CalcLevels, sz \in CalcSizes,
          lev \in CalcLeverages, dir \in Directions }
    \cup
    { [fn |-> "calculateRiskRewardRatio", risk |-> risk, reward |-> reward] :
          risk \in CalcAmounts, reward \in CalcAmounts }
    \cup
    { [fn |-> "calculatePNL", entryPrice |-> p, currentPrice |-> cp,
       positionSize |-> sz, leverage |-> lev, direction |-> dir] :
          p \in CalcPrices, cp \in CalcPrices, sz \in CalcSizes,
          lev \in CalcLeverages, dir \in Directions }
    \cup
    { [fn |-> "calculateLiquidationPrice", entryPrice |-> p, leverage |-> lev,
       direction |-> dir] :
          p \in CalcPrices, lev \in CalcLeverages, dir \in Directions }
    \cup
    { [fn |-> fn, originalPosition |-> pos, adjustment |-> adj,
       currentPrice |-> Undef] :
          fn \in {"calculateAdjustedPosition", "projected"},
          pos \in CalcPositions, adj \in CalcAdjustments }

\* positions of one entry with or without levels and a stored price
MetricPositions ==
    { [sideEntry |-> dir,
       entries |-> <<[entryPrice |-> o.entryPrice, size |-> o.size,
                      leverage |-> o.leverage, type |-> "initial"]>>,
       stopLoss |-> sl, takeProfit |-> tp, currentPrice |-> stored] :
          dir \in Directions, o \in OrderInputs, sl \in {Undef, T(95)},
          tp \in {Undef, T(120)}, stored \in {Undef, T(108)} }

\* adjustments with or without a take-profit of their own
MetricAdjustments ==
    { [type |-> t, newEntryPrice |-> o.entryPrice, adjustmentSize |-> o.size,
       adjustmentLeverage |-> o.leverage, takeProfit |-> tp] :
          t \in {"add", "subtract"}, o \in OrderInputs, tp \in {Undef, T(130)} }

\* calls with or without a live price
MetricCalls ==
    { [fn |-> fn, originalPosition |-> pos, adjustment |-> adj,
       currentPrice |-> live] :
          fn \in {"calculateAdjustedPosition", "projected"},
          pos \in MetricPositions, adj \in MetricAdjustments,
          live \in {Undef, T(115)} }

----------------------------------------------------------------------------
(* State *)

VARIABLES
    position,           \* the position of the page, Null before one is created
    validationErrors,   \* the errors the position form shows
    preview,            \* the projected metrics on screen when Apply was pressed
    call,               \* a call of a function of utils/calculations.ts
    result,             \* what the call returned
    prices,             \* PriceProvider: the latest price stored per symbol
    isConnected,        \* PriceProvider: the connection status
    error,              \* PriceProvider: the error message, NoError for null
    failedAttempts,     \* PriceProvider: fetches failed since the last success
    fetches             \* the fetches issued so far, in order, each
                        \* "inflight", "ok" or "failed"

\* the state of the PriceProvider
pollerVars == <<prices, isConnected, error, failedAttempts, fetches>>

vars == <<position, validationErrors, preview, call, result, pollerVars>>

\* new Map(): no price stored
NoPrices == << >>

\* error === null
NoError == "null"

\* the PriceProvider as constructed, before its effect has run
InitPoller ==
    /\ prices = NoPrices
    /\ isConnected = TRUE
    /\ error = NoError
    /\ failedAttempts = 0
    /\ fetches = << >>

\* no call is being made
NoCall == [fn |-> "none"]

\* the call has not returned
Pending == [k |-> "pending"]

NoPreview == [k |-> "none"]

\* no live price has arrived
NoPrice == Undef

Init ==
    /\ position = Null
    /\ validationErrors = << >>
    /\ preview = NoPreview
    /\ call = NoCall
    /\ result = Pending
    /\ InitPoller

\* PositionForm.handleSubmit, then Home.handlePositionSubmit
Submit(levels) ==
    /\ position = Null
    /\ UNCHANGED <<call, result, pollerVars>>
    /\ \E f \in PositionForms(levels) :
         LET errors == validatePositionInput(f.entryPrice, f.positionSizeUSD,
                                             f.leverage, f.stopLoss, f.takeProfit)
         IN  IF Len(errors) > 0
             THEN /\ validationErrors' = errors
                  /\ UNCHANGED <<position, preview>>
             ELSE /\ validationErrors' = << >>
                  /\ position' = handleSubmit(f, NoPrice)
                  /\ preview' = NoPreview

\* PositionAdjustment.handleApplyAdjustment, then Home.handlePositionUpdate
Apply(maxLen, orders, levels, percents) ==
    /\ position # Null
    /\ Len(position.entries) < maxLen
    /\ UNCHANGED <<call, result, pollerVars>>
    /\ \E form \in AdjustmentForms(orders, levels, percents) :
         LET adj == proposedAdjustment(form, position.entries)
         IN  /\ position' = handleApplyAdjustment(position, form, NoPrice)
             /\ preview' =
                  IF adj = NoAdjustment THEN preview
                  ELSE projected(projectedPosition(position.entries, adj),
                                 position.stopLoss, position.sideEntry,
                                 form.takeProfitPrice, NoPrice)
             /\ UNCHANGED validationErrors

\* PositionAdjustment.handleRemoveEntry, then Home.handlePositionUpdate
RemoveEntry ==
    /\ position # Null
    /\ UNCHANGED <<call, result, pollerVars>>
    /\ \E index \in 0..(Len(position.entries) - 1) :
         /\ position' = handleRemoveEntry(position, index)
         /\ preview' = IF index = 0 THEN preview ELSE NoPreview
         /\ UNCHANGED validationErrors

\* PositionAdjustment.handleStartEdit, the typing, and handleSaveEdit, then
\* Home.handlePositionUpdate
SaveEdit(orders) ==
    /\ position # Null
    /\ UNCHANGED <<call, result, pollerVars>>
    /\ \E index \in 0..(Len(position.entries) - 1),
          o \in orders \cup {BlankSize} :
         LET editingEntry == [index |-> index, entryPrice |-> o.entryPrice,
                              size |-> o.size, leverage |-> o.leverage]
         IN  /\ position' = handleSaveEdit(position, editingEntry)
             /\ preview' = IF position' = position THEN preview ELSE NoPreview
             /\ UNCHANGED validationErrors

\* the chain editor with no stop-loss or take-profit typed, sizes in USD
Next ==
    \/ Submit(NoLevelInputs)
    \/ Apply(MaxEntries, OrderInputs, NoLevelInputs, NoPercentInputs)
    \/ RemoveEntry
    \/ SaveEdit(OrderInputs)

Spec == Init /\ [][Next]_vars

\* shorter chains, with stop-loss and take-profit typed and sizes in USD or
\* percent
NextRisk ==
    \/ Submit(LevelInputs)
    \/ Apply(MaxRiskEntries, OrderInputs, LevelInputs, PercentInputs)
    \/ RemoveEntry
    \/ SaveEdit(OrderInputs)

SpecRisk == Init /\ [][NextRisk]_vars

\* short chains, with any number typed into the price, size and leverage
\* inputs of the adjustment form and of the edit dialog
NextAnyOrder ==
    \/ Submit(NoLevelInputs)
    \/ Apply(MaxAnyOrderEntries, AnyOrderInputs, NoLevelInputs, NoPercentInputs)
    \/ RemoveEntry
    \/ SaveEdit(AnyOrderInputs)

SpecAnyOrder == Init /\ [][NextAnyOrder]_vars

\* a render of PositionAdjustment with the form filled in: proposedAdjustment,
\* projectedPosition and projected are evaluated (one render is followed per
\* behaviour)
Project(orders, levels, percents) ==
    /\ position # Null
    /\ call = NoCall
    /\ UNCHANGED pollerVars
    /\ \E form \in AdjustmentForms(orders, levels, percents) :
         LET adj == proposedAdjustment(form, position.entries)
         IN  /\ call' = [fn |-> "projected", form |-> form]
             /\ result' = projected(projectedPosition(position.entries, adj),
                                    position.stopLoss, position.sideEntry,
                                    form.takeProfitPrice, NoPrice)
             /\ position' = positionAfterProjection(position, adj)
             /\ UNCHANGED <<validationErrors, preview>>

\* short chains that grow, with the projection evaluated before or after an
\* adjustment is applied
NextProject ==
    \/ Submit(LevelInputs)
    \/ Apply(MaxProjectEntries, OrderInputs, NoLevelInputs, NoPercentInputs)
    \/ Project(OrderInputs, NoLevelInputs, NoPercentInputs)

SpecProject == Init /\ [][NextProject]_vars

----------------------------------------------------------------------------
(* The price poller (PriceProvider) *)

\* trackedSymbolsRef.current
TrackedSymbols == {"BTC", "ETH"}

\* the body of the response to the fetch issued id-th: the market moves
\* between two fetches, so each response carries prices of its own
PriceData(id) == [symbol \in TrackedSymbols |-> T(100 + id)]

\* the updater given to setPrices: prev with every symbol of data set
UpdatedPrices(prev, data) ==
    [symbol \in (DOMAIN prev) \cup (DOMAIN data) |->
        IF symbol \in DOMAIN data THEN data[symbol] ELSE prev[symbol]]

\* fetchPrices up to its await: the request is sent
IssueFetch ==
    /\ Len(fetches) < MaxFetches
    /\ fetches' = Append(fetches, "inflight")

\* the effect on mount and every tick of setInterval call fetchPrices; a
\* tick does not wait for the fetch before it
Poll ==
    /\ IssueFetch
    /\ UNCHANGED <<prices, isConnected, error, failedAttempts>>
    /\ UNCHANGED <<position, validationErrors, preview, call, result>>

\* retry(): the error is cleared and fetchPrices called
Retry ==
    /\ IssueFetch
    /\ failedAttempts' = 0
    /\ error' = NoError
    /\ UNCHANGED <<prices, isConnected>>
    /\ UNCHANGED <<position, validationErrors, preview, call, result>>

\* fetchPrices after its awaits, the response being ok
FetchResolved ==
    \E id \in 1..Len(fetches) :
        /\ fetches[id] = "inflight"
        /\ fetches' = [fetches EXCEPT ![id] = "ok"]
        /\ prices' = UpdatedPrices(prices, PriceData(id))
        /\ isConnected' = TRUE
        /\ error' = NoError
        /\ failedAttempts' = 0
        /\ UNCHANGED <<position, validationErrors, preview, call, result>>

\* fetchPrices in its catch: the request timed out, the network failed or
\* the response was not ok
FetchRejected ==
    \E id \in 1..Len(fetches) :
        /\ fetches[id] = "inflight"
        /\ fetches' = [fetches EXCEPT ![id] = "failed"]
        /\ error' = "Unable to fetch live prices"
        /\ isConnected' = FALSE
        /\ failedAttempts' = failedAttempts + 1
        /\ UNCHANGED prices
        /\ UNCHANGED <<position, validationErrors, preview, call, result>>

NextPoller ==
    \/ Poll
    \/ Retry
    \/ FetchResolved
    \/ FetchRejected

InitPrice ==
    /\ position = Null
    /\ validationErrors = << >>
    /\ preview = NoPreview
    /\ call = NoCall
    /\ result = Pending
    /\ InitPoller

SpecPrice == InitPrice /\ [][NextPoller]_vars

----------------------------------------------------------------------------
(* Calls of validatePositionInput (utils/validation.ts) *)

\* texts of the entry price and of the position size
AmountTexts ==
    {Empty, Garbage, T(0), T(-100), T(100), Trailing(T(100)), T(1000000), T(1000001)}

\* texts of the leverage
LeverageTexts == {Empty, Garbage, Rat(1, 2), T(1), Trailing(T(2)), T(50), T(51)}

\* texts of the stop-loss and of the take-profit, or none given
LevelTexts == {Undef, Empty, Garbage, T(0), T(-5), T(105)}

ValidateCalls ==
    { [fn |-> "validatePositionInput", entryPrice |-> p, positionSize |-> sz,
       leverage |-> lev, stopLoss |-> sl, takeProfit |-> tp] :
          p \in AmountTexts, sz \in AmountTexts, lev \in LeverageTexts,
          sl \in LevelTexts, tp \in LevelTexts }

InitValidate ==
    /\ position = Null
    /\ validationErrors = << >>
    /\ preview = NoPreview
    /\ call \in ValidateCalls
    /\ result = Pending
    /\ InitPoller

CallValidatePositionInput ==
    /\ call.fn = "validatePositionInput"
    /\ result = Pending
    /\ result' = [errors |-> validatePositionInput(call.entryPrice,
                                  call.positionSize, call.leverage, call.stopLoss,
                                  call.takeProfit)]
    /\ UNCHANGED <<position, validationErrors, preview, call, pollerVars>>

NextValidate == CallValidatePositionInput

SpecValidate == InitValidate /\ [][NextValidate]_vars

----------------------------------------------------------------------------
(* Calls of the functions of utils/calculations.ts, and of the projection *)

InitCalc ==
    /\ position = Null
    /\ validationErrors = << >>
    /\ preview = NoPreview
    /\ call \in Calls
    /\ result = Pending
    /\ InitPoller

CallAverageEntryPrice ==
    /\ call.fn = "calculateAverageEntryPrice"
    /\ result = Pending
    /\ result' = calculateAverageEntryPrice(call.originalSize, call.originalPrice,
                     call.adjustmentSize, call.adjustmentPrice, call.adjustmentType)
    /\ UNCHANGED <<position, validationErrors, preview, call, pollerVars>>

CallRiskAmount ==
    /\ call.fn = "calculateRiskAmount"
    /\ result = Pending
    /\ result' = calculateRiskAmount(call.entryPrice, call.stopLoss, call.positionSize,
                                     call.leverage, call.direction)
    /\ UNCHANGED <<position, validationErrors, preview, call, pollerVars>>

CallRewardAmount ==
    /\ call.fn = "calculateRewardAmount"
    /\ result = Pending
    /\ result' = calculateRewardAmount(call.entryPrice, call.targetPrice,
                     call.positionSize, call.leverage, call.direction)
    /\ UNCHANGED <<position, validationErrors, preview, call, pollerVars>>

CallRiskRewardRatio ==
    /\ call.fn = "calculateRiskRewardRatio"
    /\ result = Pending
    /\ result' = calculateRiskRewardRatio(call.risk, call.reward)
    /\ UNCHANGED <<position, validationErrors, preview, call, pollerVars>>

CallPNL ==
    /\ call.fn = "calculatePNL"
    /\ result = Pending
    /\ result' = calculatePNL(call.entryPrice, call.currentPrice, call.positionSize,
                              call.leverage, call.direction)
    /\ UNCHANGED <<position, validationErrors, preview, call, pollerVars>>

CallLiquidationPrice ==
    /\ call.fn = "calculateLiquidationPrice"
    /\ result = Pending
    /\ result' = calculateLiquidationPrice(call.entryPrice, call.leverage,
                                           call.direction)
    /\ UNCHANGED <<position, validationErrors, preview, call, pollerVars>>

\* the take-profit field a proposal's takeProfit was parsed from
TakeProfitText(adj) == IF adj.takeProfit = Undef THEN Empty ELSE adj.takeProfit

CallAdjustedPosition ==
    /\ call.fn = "calculateAdjustedPosition"
    /\ result = Pending
    /\ result' = calculateAdjustedPosition(call.originalPosition, call.adjustment,
                                           call.currentPrice)
    /\ UNCHANGED <<position, validationErrors, preview, call, pollerVars>>

\* the projected memo for call.originalPosition with call.adjustment proposed
CallProjected ==
    /\ call.fn = "projected"
    /\ result = Pending
    /\ result' = projected(projectedPosition(call.originalPosition.entries,
                                             call.adjustment),
                           call.originalPosition.stopLoss,
                           call.originalPosition.sideEntry,
                           TakeProfitText(call.adjustment), call.currentPrice)
    /\ UNCHANGED <<position, validationErrors, preview, call, pollerVars>>

NextCalc ==
    \/ CallAverageEntryPrice
    \/ CallRiskAmount
    \/ CallRewardAmount
    \/ CallRiskRewardRatio
    \/ CallPNL
    \/ CallLiquidationPrice
    \/ CallAdjustedPosition
    \/ CallProjected

SpecCalc == InitCalc /\ [][NextCalc]_vars

\* the two projections called for positions with levels and prices
InitMetrics ==
    /\ position = Null
    /\ validationErrors = << >>
    /\ preview = NoPreview
    /\ call \in MetricCalls
    /\ result = Pending
    /\ InitPoller

NextMetrics ==
    \/ CallAdjustedPosition
    \/ CallProjected

SpecMetrics == InitMetrics /\ [][NextMetrics]_vars

----------------------------------------------------------------------------
(* Reference notions the claims are stated with *)

Entries == position.entries

IsOpening(e) == e.type # "subtract"

\* f[1] + ... + f[n]
RECURSIVE NumSumTo(_, _)
NumSumTo(f, n) == IF n = 0 THEN Zero ELSE Add(f[n], NumSumTo(f, n - 1))

\* the volume opened by the first n entries, and the volume they close
OpenSizeTo(es, n) ==
    NumSumTo([i \in 1..n |-> IF IsOpening(es[i]) THEN es[i].size ELSE Zero], n)

ClosedSizeTo(es, n) ==
    NumSumTo([i \in 1..n |-> IF IsOpening(es[i]) THEN Zero ELSE es[i].size], n)

NumMin(a, b) == IF Lt(b, a) THEN b ELSE a

NumMax0(a) == IF Lt(a, Zero) THEN Zero ELSE a

\* what is left of the lot of entry i once the whole closed volume has been
\* taken from the oldest lots first
FifoLeft(es, i) ==
    IF ~IsOpening(es[i]) THEN Zero
    ELSE LET closed == ClosedSizeTo(es, Len(es))
             before == OpenSizeTo(es, i - 1)
             consumed == NumMin(es[i].size, NumMax0(Sub(closed, before)))
         IN  Sub(es[i].size, consumed)

FifoLeftSize(es) == NumSumTo([i \in 1..Len(es) |-> FifoLeft(es, i)], Len(es))

FifoLeftPrice(es) ==
    Div(NumSumTo([i \in 1..Len(es) |-> Mul(FifoLeft(es, i), es[i].entryPrice)], Len(es)),
        FifoLeftSize(es))

FifoLeftLeverage(es) ==
    Div(NumSumTo([i \in 1..Len(es) |-> Mul(FifoLeft(es, i), es[i].leverage)], Len(es)),
        FifoLeftSize(es))

\* the chain of the FIFO example: 1000 at 100, 1000 more at 110, 1000 closed
IsFifoExample(es) ==
    /\ Len(es) = 3
    /\ es[1].type = "initial" /\ es[1].size = T(1000) /\ es[1].entryPrice = T(100)
    /\ es[2].type = "add" /\ es[2].size = T(1000) /\ es[2].entryPrice = T(110)
    /\ es[3].type = "subtract" /\ es[3].size = T(1000)

\* C1: with volume remaining, the aggregator's averageEntryPrice is the
\* size-weighted average price of what FIFO closing leaves of the opening
\* entries; on the example chain it is 110.
C1_FifoAverage ==
    position # Null =>
        /\ Gt(totals(Entries).totalSize, Zero) =>
               totals(Entries).averageEntryPrice = FifoLeftPrice(Entries)
        /\ IsFifoExample(Entries) => totals(Entries).averageEntryPrice = T(110)

\* a chain where a close has consumed the oldest lot whole and part of the
\* next, and the example chain itself
C1_Witness_PartialLot ==
    /\ position # Null
    /\ Len(Entries) = 3
    /\ IsOpening(Entries[2])
    /\ FifoLeft(Entries, 1) = Zero
    /\ Gt(FifoLeft(Entries, 2), Zero)
    /\ Lt(FifoLeft(Entries, 2), Entries[2].size)
    /\ Entries[1].entryPrice # Entries[2].entryPrice

\* the adjustment forms of Spec that propose a reduction
ReduceForms ==
    { form \in AdjustmentForms(OrderInputs, NoLevelInputs, NoPercentInputs) :
         form.adjustmentType = "subtract" }

\* C2: the aggregated remaining size is max(openSize - closedSize, 0), never
\* negative, and a reduction larger than the open volume is appended and
\* leaves a remaining size of 0.
C2_RemainingSizeClamped ==
    position # Null =>
        LET open == OpenSizeTo(Entries, Len(Entries))
            closed == ClosedSizeTo(Entries, Len(Entries))
        IN  /\ totals(Entries).totalSize = NumMax0(Sub(open, closed))
            /\ Le(Zero, totals(Entries).totalSize)
            /\ \A form \in ReduceForms :
                 LET adj == proposedAdjustment(form, Entries)
                     after == handleApplyAdjustment(position, form, NoPrice)
                 IN  (adj # NoAdjustment
                        /\ Gt(adj.adjustmentSize, totals(Entries).totalSize)) =>
                         /\ Len(after.entries) = Len(Entries) + 1
                         /\ after.entries[Len(after.entries)].size = adj.adjustmentSize
                         /\ totals(after.entries).totalSize = Zero

\* Apply has appended a reduction that closes more than was open
C2_Witness_OverClosed ==
    /\ position # Null
    /\ preview # NoPreview
    /\ Entries[Len(Entries)].type = "subtract"
    /\ Gt(ClosedSizeTo(Entries, Len(Entries)), OpenSizeTo(Entries, Len(Entries)))
    /\ totals(Entries).totalSize = Zero

\* C3: the totalSize and averageEntryPrice projected when Apply is pressed are
\* those the aggregator gives for the chain Apply has produced.
C3_PreviewEqualsCommit ==
    (position # Null /\ preview # NoPreview) =>
        /\ preview.totalSize = totals(Entries).totalSize
        /\ preview.averageEntryPrice = totals(Entries).averageEntryPrice

\* Apply has committed a previewed reduction that closes part of a lot
C3_Witness_ReductionApplied ==
    /\ position # Null
    /\ preview # NoPreview
    /\ Len(Entries) = 3
    /\ Entries[3].type = "subtract"
    /\ Gt(preview.totalSize, Zero)
    /\ preview.averageEntryPrice # Entries[1].entryPrice

\* C10: a chain with nothing remaining aggregates to averageEntryPrice 0 and
\* averageLeverage 1; otherwise averageLeverage is the size-weighted average
\* leverage of what FIFO closing leaves of the opening entries.
C10_ClosedFallbackAndLeverage ==
    position # Null =>
        IF totals(Entries).totalSize = Zero
        THEN /\ totals(Entries).averageEntryPrice = Zero
             /\ totals(Entries).averageLeverage = One
        ELSE totals(Entries).averageLeverage = FifoLeftLeverage(Entries)

\* a fully closed chain whose opening entries had a leverage other than 1
C10_Witness_Closed ==
    /\ position # Null
    /\ Len(Entries) >= 2
    /\ totals(Entries).totalSize = Zero
    /\ Entries[1].leverage # One

\* C7: the chain of a created position is never empty, starts with the
\* initial entry and has no other initial entry; removing index 0 changes
\* nothing.
C7_OneInitialFirst ==
    position # Null =>
        /\ Len(Entries) >= 1
        /\ Entries[1].type = "initial"
        /\ Cardinality({i \in 1..Len(Entries) : Entries[i].type = "initial"}) = 1
        /\ handleRemoveEntry(position, 0) = position

\* an entry has been removed or edited in a chain that still has adjustments
C7_Witness_ChainEdited ==
    /\ position # Null
    /\ Len(Entries) >= 2
    /\ preview = NoPreview

\* the position handed to calculateAdjustedPosition
OriginalPosition == position

\* every adjustment form of the model
AllForms == AdjustmentForms(OrderInputs, LevelInputs, PercentInputs)

\* C4: calculateAdjustedPosition returns the totalSize and averageEntryPrice
\* that the FIFO chain aggregator gives for the chain extended with the
\* adjustment.
C4_AdjustedEqualsFifo ==
    position # Null =>
        \A form \in AllForms :
            LET adj == proposedAdjustment(form, Entries)
                calculated == calculateAdjustedPosition(OriginalPosition, adj, NoPrice)
                hypothetical == Append(Entries, AdjustmentEntry(adj))
            IN  adj # NoAdjustment =>
                    /\ calculated.totalSize = totals(hypothetical).totalSize
                    /\ calculated.averageEntryPrice =
                           totals(hypothetical).averageEntryPrice

\* the average price of the volume opened before the entry at position idx
PreCloseAverage(es, idx) ==
    Div(NumSumTo([i \in 1..(idx - 1) |->
                     IF IsOpening(es[i]) THEN Mul(es[i].size, es[i].entryPrice)
                     ELSE Zero], idx - 1),
        OpenSizeTo(es, idx - 1))

\* C5: the realized P&L of a Subtract entry is taken against the average
\* price of the opening entries before it, whatever was closed earlier.
C5_RealizedAgainstPreCloseAverage ==
    position # Null =>
        \A idx \in 1..Len(Entries) :
            Entries[idx].type = "subtract" =>
                LET e == Entries[idx]
                    avg == PreCloseAverage(Entries, idx)
                    dirMult == IF position.sideEntry = "long" THEN One ELSE Int2Num(-1)
                IN  entryPNL(Entries, idx, position.sideEntry).entryPNL =
                        Mul(Mul(Mul(e.size, Div(Sub(e.entryPrice, avg), avg)), dirMult),
                            e.leverage)

\* the size left when every entry acts in turn: an opening entry adds its
\* size, a Subtract closes what is open at that point and no more
RECURSIVE SequentialRemaining(_, _)
SequentialRemaining(es, n) ==
    IF n = 0 THEN Zero
    ELSE IF IsOpening(es[n]) THEN Add(SequentialRemaining(es, n - 1), es[n].size)
    ELSE NumMax0(Sub(SequentialRemaining(es, n - 1), es[n].size))

\* C6: a Subtract closes only volume opened before it; what it over-closes is
\* discarded and takes nothing from an entry added later.
C6_CloseOnlyEarlierVolume ==
    position # Null =>
        totals(Entries).totalSize = SequentialRemaining(Entries, Len(Entries))

\* a level is on its side of the price: the stop-loss on the loss side, the
\* take-profit on the profit side
OnLossSide(level, price, side) ==
    IF side = "long" THEN Lt(level, price) ELSE Gt(level, price)

OnProfitSide(level, price, side) ==
    IF side = "long" THEN Gt(level, price) ELSE Lt(level, price)

LevelsOnTheirSide(pos) ==
    LET price == totals(pos.entries).averageEntryPrice
    IN  /\ pos.stopLoss # Undef => OnLossSide(pos.stopLoss, price, pos.sideEntry)
        /\ pos.takeProfit # Undef => OnProfitSide(pos.takeProfit, price, pos.sideEntry)

\* C8: creating a position, or applying an adjustment that sets a level,
\* never stores a stop-loss or take-profit on the wrong side of the
\* position's entry price.
C8_WrongSideLevelsRejected ==
    [][ /\ (position = Null /\ position' # Null) => LevelsOnTheirSide(position')
        /\ (position # Null /\ position' # Null
              /\ Len(position'.entries) > Len(position.entries)
              /\ (position'.stopLoss # position.stopLoss
                    \/ position'.takeProfit # position.takeProfit))
             => LevelsOnTheirSide(position') ]_vars

\* C9: when the projected remaining size is 0, the projected risk amount,
\* reward amount and risk/reward ratio are the fallback 0.
C9_ClosedProjectionIsZero ==
    (position # Null /\ preview # NoPreview /\ preview.totalSize = Zero) =>
        /\ preview.riskAmount = Zero
        /\ preview.rewardAmount = Zero
        /\ preview.riskRewardRatio = Zero

\* every entry of a chain is a valid entry
EntriesValid(es) ==
    \A i \in 1..Len(es) :
        /\ Gt(es[i].entryPrice, Zero)
        /\ Gt(es[i].size, Zero)
        /\ Le(One, es[i].leverage)

\* C11: whatever is typed into Apply and Edit, every entry of the chain keeps
\* entryPrice > 0, size > 0 and leverage >= 1: an Apply or Edit with other
\* values leaves the chain as it was.
C11_EntriesStayValid ==
    [][ (position # Null /\ EntriesValid(position.entries))
           => EntriesValid(position'.entries) ]_vars

\* the call has returned from fn
Returned(fn) == call.fn = fn /\ result # Pending

\* C12: calculateLiquidationPrice returns 0 at leverage 1 for every entry
\* price and both directions, and calculateAdjustedPosition and projected
\* then report no liquidationPrice (undefined).
C12_UnitLeverageNoLiquidation ==
    /\ (Returned("calculateLiquidationPrice") /\ call.leverage = One) =>
           result = Zero
    /\ (Returned("projected") /\ result.avgLeverage = One) =>
           result.liquidationPrice = Undef
    /\ (Returned("calculateAdjustedPosition")
          /\ call.originalPosition.entries[1].leverage = One
          /\ call.adjustment.adjustmentLeverage = One) =>
           result.liquidationPrice = Undef

\* a Short position at leverage 1 with volume added at leverage 1 has been
\* projected
C12_Witness_ShortAtUnitLeverage ==
    /\ Returned("projected")
    /\ call.originalPosition.sideEntry = "short"
    /\ call.adjustment.type = "add"
    /\ result.avgLeverage = One
    /\ Gt(result.totalSize, Zero)
    /\ result.liquidationPrice = Undef

\* C13: for a leverage L > 1 the liquidation price is entry * (1 - 1/L),
\* below the entry price and not negative, for Long, and entry * (1 + 1/L),
\* above the entry price, for Short.
C13_LiquidationSide ==
    (Returned("calculateLiquidationPrice") /\ Gt(call.leverage, One)) =>
        IF call.direction = "long"
        THEN /\ result = Mul(call.entryPrice, Sub(One, Div(One, call.leverage)))
             /\ Lt(result, call.entryPrice)
             /\ Le(Zero, result)
        ELSE /\ result = Mul(call.entryPrice, Add(One, Div(One, call.leverage)))
             /\ Gt(result, call.entryPrice)

\* the liquidation price of a Long at leverage 3/2 has been computed
C13_Witness_FractionalLeverage ==
    /\ Returned("calculateLiquidationPrice")
    /\ call.leverage = Rat(3, 2)
    /\ call.direction = "long"
    /\ Gt(result, Zero)

\* C14: calculateRiskRewardRatio returns 0 when the risk or the reward is 0,
\* and reward / risk otherwise.
C14_RatioOrZero ==
    Returned("calculateRiskRewardRatio") =>
        IF call.risk = Zero \/ call.reward = Zero
        THEN result = Zero
        ELSE result = Div(call.reward, call.risk)

\* the ratio of a reward to a risk of 0 has been computed
C14_Witness_ZeroRisk ==
    /\ Returned("calculateRiskRewardRatio")
    /\ call.risk = Zero
    /\ call.reward # Zero

\* a level that is absent or 0 counts as not set
NotSet(level) == level = Undef \/ level = Zero

C16_RiskMagnitude ==
    Returned("calculateRiskAmount") =>
        /\ Le(Zero, result)
        /\ IF NotSet(call.stopLoss)
           THEN result = Zero
           ELSE result =
                  Div(Mul(Mul(call.positionSize, call.leverage),
                          Abs(Sub(call.entryPrice, call.stopLoss))),
                      call.entryPrice)
        /\ \A dir \in Directions :
               result = calculateRiskAmount(call.entryPrice, call.stopLoss,
                                            call.positionSize, call.leverage, dir)

\* the risk of a position whose stop-loss lies above its entry price has
\* been computed
C16_Witness_StopAboveEntry ==
    /\ Returned("calculateRiskAmount")
    /\ ~NotSet(call.stopLoss)
    /\ Gt(call.stopLoss, call.entryPrice)
    /\ Gt(result, Zero)

\* the price has moved in the favour of a position of that direction
InFavour(direction, entryPrice, currentPrice) ==
    IF direction = "long" THEN Gt(currentPrice, entryPrice)
    ELSE Lt(currentPrice, entryPrice)

C18_AddWeightedAverage ==
    (Returned("calculateAverageEntryPrice") /\ call.adjustmentType = "add") =>
        result = Div(Add(Mul(call.originalSize, call.originalPrice),
                         Mul(call.adjustmentSize, call.adjustmentPrice)),
                     Add(call.originalSize, call.adjustmentSize))

\* volume of another size has been added at another price
C18_Witness_UnequalLots ==
    /\ Returned("calculateAverageEntryPrice")
    /\ call.adjustmentType = "add"
    /\ call.originalSize # call.adjustmentSize
    /\ call.originalPrice # call.adjustmentPrice

\* C19: for a subtract, calculateAverageEntryPrice returns the original price
\* while originalSize - adjustmentSize > 0, and the closing price once the
\* position is fully closed.
C19_SubtractKeepsOrCloses ==
    (Returned("calculateAverageEntryPrice") /\ call.adjustmentType = "subtract") =>
        IF Gt(Sub(call.originalSize, call.adjustmentSize), Zero)
        THEN result = call.originalPrice
        ELSE result = call.adjustmentPrice

\* a position has been closed exactly, at another price than it was opened
C19_Witness_ClosedExactly ==
    /\ Returned("calculateAverageEntryPrice")
    /\ call.adjustmentType = "subtract"
    /\ call.originalSize = call.adjustmentSize
    /\ call.originalPrice # call.adjustmentPrice
    /\ result = call.adjustmentPrice

\* C20: a chain of the initial entry alone aggregates to that entry's size,
\* price and leverage.
C20_SingleEntryAggregate ==
    (position # Null /\ Len(Entries) = 1) =>
        /\ totals(Entries).totalSize = Entries[1].size
        /\ totals(Entries).averageEntryPrice = Entries[1].entryPrice
        /\ totals(Entries).averageLeverage = Entries[1].leverage

\* a position of one leveraged entry has been created
C20_Witness_CreatedLeveraged ==
    /\ position # Null
    /\ Len(Entries) = 1
    /\ Entries[1].type = "initial"
    /\ Gt(Entries[1].leverage, One)

\* the adjustment forms of Spec
ChainForms == AdjustmentForms(OrderInputs, NoLevelInputs, NoPercentInputs)

\* C21: a reduction is appended with the leverage the chain aggregated to
\* before the append, whatever the leverage input holds; an add with an empty
\* leverage input forms no proposal and Apply leaves the position as it was.
C21_LeverageSelection ==
    position # Null =>
        \A form \in ChainForms :
            LET after == handleApplyAdjustment(position, form, NoPrice)
            IN  /\ (form.adjustmentType = "subtract"
                      /\ Len(after.entries) > Len(Entries)) =>
                       after.entries[Len(after.entries)].leverage =
                           totals(Entries).averageLeverage
                /\ (form.adjustmentType = "add"
                      /\ ~TruthyText(form.adjustmentLeverage)) =>
                       /\ proposedAdjustment(form, Entries) = NoAdjustment
                       /\ after = position

\* a reduction has been applied to a chain whose average leverage, 3/2, is
\* none of the leverages that can be typed
C21_Witness_ReducedAtAverage ==
    /\ position # Null
    /\ preview # NoPreview
    /\ Len(Entries) = 3
    /\ Entries[3].type = "subtract"
    /\ Entries[3].leverage = Rat(3, 2)

\* the risk the position shows once Apply has committed: originalMetrics of
\* the updated position
CommittedRisk ==
    originalMetrics(Entries, position.stopLoss, position.sideEntry, Empty, Empty,
                    NoPrice).riskAmount

\* C24: with volume remaining, the risk projected when Apply is pressed is
\* the risk of the position Apply has committed, the stop-loss typed with the
\* adjustment included.
C24_ProjectedRiskUsesTypedStop ==
    (position # Null /\ preview # NoPreview /\ Gt(preview.totalSize, Zero)) =>
        preview.riskAmount = CommittedRisk

\* C27: the average entry price and the leverage behind the "current PNL
\* of remaining" of a Subtract row are those the FIFO aggregator gives for
\* the chain up to and including that row.
C27_RemainingAtRowIsFifo ==
    position # Null =>
        \A idx \in 1..Len(Entries) :
            (Entries[idx].type = "subtract"
               /\ Gt(remainingAtRow(Entries, idx).remainingSize, Zero)) =>
                /\ remainingAtRow(Entries, idx).remainingAvgEntry =
                       totals(SubSeq(Entries, 1, idx)).averageEntryPrice
                /\ remainingAtRow(Entries, idx).remainingLeverage =
                       totals(SubSeq(Entries, 1, idx)).averageLeverage

\* the opening entries of a chain
OpeningRows(es) == { i \in 1..Len(es) : IsOpening(es[i]) }

\* C29: while volume remains, what FIFO closing leaves of the opening entries
\* adds up to the aggregated remaining size, the average entry price lies
\* between the lowest and the highest price of the opening entries, and the
\* average leverage between their lowest and highest leverage, so is >= 1;
\* the projection made when Apply is pressed is within the same bounds.
C29_AveragesWithinBounds ==
    (position # Null /\ Gt(totals(Entries).totalSize, Zero)) =>
        LET t == totals(Entries)
            rows == OpeningRows(Entries)
        IN  /\ FifoLeftSize(Entries) = t.totalSize
            /\ \E i \in rows : Le(Entries[i].entryPrice, t.averageEntryPrice)
            /\ \E i \in rows : Le(t.averageEntryPrice, Entries[i].entryPrice)
            /\ \E i \in rows : Le(Entries[i].leverage, t.averageLeverage)
            /\ \E i \in rows : Le(t.averageLeverage, Entries[i].leverage)
            /\ Le(One, t.averageLeverage)
            /\ preview # NoPreview =>
                  /\ \E i \in rows : Le(Entries[i].entryPrice, preview.averageEntryPrice)
                  /\ \E i \in rows : Le(preview.averageEntryPrice, Entries[i].entryPrice)
                  /\ \E i \in rows : Le(Entries[i].leverage, preview.avgLeverage)
                  /\ \E i \in rows : Le(preview.avgLeverage, Entries[i].leverage)

\* part of the volume of a chain with two opening prices and two leverages
\* has been closed
C29_Witness_MixedLotsReduced ==
    /\ position # Null
    /\ Len(Entries) = 3
    /\ Entries[2].type = "add"
    /\ Entries[3].type = "subtract"
    /\ Entries[1].entryPrice # Entries[2].entryPrice
    /\ Entries[1].leverage # Entries[2].leverage
    /\ Gt(totals(Entries).totalSize, Zero)
    /\ Lt(totals(Entries).totalSize, OpenSizeTo(Entries, 3))

\* the edits of an entry the dialog of Spec can save
ChainEdits(es) ==
    { [index |-> index, entryPrice |-> o.entryPrice, size |-> o.size,
       leverage |-> o.leverage] :
          index \in 0..(Len(es) - 1), o \in OrderInputs \cup {BlankSize} }

\* C26: Apply, Edit and Remove keep the position's direction and symbol;
\* Apply appends one add or subtract entry (or nothing) and keeps the entries
\* there were; Edit keeps the length, the type of the edited entry and every
\* other entry; Remove of an entry other than the first deletes that entry
\* and keeps the others in their order.
C26_HandlersFrame ==
    position # Null =>
        LET n == Len(Entries)
            SameHead(after) == /\ after.sideEntry = position.sideEntry
                               /\ after.symbol = position.symbol
        IN  /\ \A form \in ChainForms :
                 LET after == handleApplyAdjustment(position, form, NoPrice)
                 IN  /\ SameHead(after)
                     /\ \/ after.entries = Entries
                        \/ /\ Len(after.entries) = n + 1
                           /\ SubSeq(after.entries, 1, n) = Entries
                           /\ after.entries[n + 1].type \in {"add", "subtract"}
            /\ \A edit \in ChainEdits(Entries) :
                 LET after == handleSaveEdit(position, edit)
                 IN  /\ SameHead(after)
                     /\ Len(after.entries) = n
                     /\ \A j \in 1..n :
                          /\ after.entries[j].type = Entries[j].type
                          /\ j # edit.index + 1 => after.entries[j] = Entries[j]
            /\ \A index \in 1..(n - 1) :
                 LET after == handleRemoveEntry(position, index)
                 IN  /\ SameHead(after)
                     /\ Len(after.entries) = n - 1
                     /\ \A j \in 1..(n - 1) :
                          after.entries[j] = Entries[IF j <= index THEN j ELSE j + 1]

\* an adjustment in the middle of the chain has been removed or edited: the
\* chain no longer is the one the last Apply produced
C26_Witness_MiddleChanged ==
    /\ position # Null
    /\ position.symbol = "BTC"
    /\ Len(Entries) = 3
    /\ preview = NoPreview
    /\ Entries[2].type = "subtract"
    /\ Entries[3].type = "add"

\* every fetch issued has completed
AllCompleted == \A id \in 1..Len(fetches) : fetches[id] # "inflight"

\* the fetches that returned prices
Succeeded == { id \in 1..Len(fetches) : fetches[id] = "ok" }

\* C30: once the fetches issued have all completed, the status is the one
\* the last-issued fetch has set and the price stored for a symbol is the one
\* returned by the last-issued fetch that returned prices: no response of an
\* earlier fetch has overwritten them.
C30_LatestFetchWins ==
    (Len(fetches) >= 2 /\ AllCompleted) =>
        /\ isConnected = (fetches[Len(fetches)] = "ok")
        /\ (error = NoError) = (fetches[Len(fetches)] = "ok")
        /\ \A id \in Succeeded :
               (\A later \in Succeeded : later <= id) =>
                   \A symbol \in TrackedSymbols : prices[symbol] = PriceData(id)[symbol]

\* the text holds a number, as parseFloat reads it
IsNumberText(text) == text # Empty /\ text # Undef /\ ~IsNaN(ParseFloat(text))

\* the number of the text lies in (low, high], or in [low, high]
InRangeAbove(text, low, high) ==
    /\ IsNumberText(text)
    /\ Gt(ParseFloat(text), Int2Num(low))
    /\ Le(ParseFloat(text), Int2Num(high))

InRangeFrom(text, low, high) ==
    /\ IsNumberText(text)
    /\ Le(Int2Num(low), ParseFloat(text))
    /\ Le(ParseFloat(text), Int2Num(high))

\* the level is left empty or is a number > 0
LevelAcceptable(text) ==
    text = Empty \/ text = Undef
       \/ (IsNumberText(text) /\ Gt(ParseFloat(text), Zero))

\* the fields of the call that violate their rule
ViolatingFields ==
    { field \in {"entryPrice", "positionSize", "leverage", "stopLoss", "takeProfit"} :
        \/ field = "entryPrice" /\ ~InRangeAbove(call.entryPrice, 0, 1000000)
        \/ field = "positionSize" /\ ~InRangeAbove(call.positionSize, 0, 1000000)
        \/ field = "leverage" /\ ~InRangeFrom(call.leverage, 1, 50)
        \/ field = "stopLoss" /\ ~LevelAcceptable(call.stopLoss)
        \/ field = "takeProfit" /\ ~LevelAcceptable(call.takeProfit) }

\* C28: validatePositionInput returns no error exactly when the entry price
\* and the size are numbers in (0, 1000000], the leverage is a number in
\* [1, 50] and each level is empty or a number > 0; otherwise it returns one
\* error for each violating field, tagged with the field's name.
C28_OneErrorPerViolatingField ==
    Returned("validatePositionInput") =>
        /\ (Len(result.errors) = 0) <=> (ViolatingFields = {})
        /\ { result.errors[i].field : i \in 1..Len(result.errors) } = ViolatingFields
        /\ Len(result.errors) = Cardinality(ViolatingFields)

\* a form with a leverage below 1 and a stop-loss of 0 has been validated, the
\* price and the size being at the top of their range
C28_Witness_TwoViolations ==
    /\ Returned("validatePositionInput")
    /\ call.entryPrice = T(1000000)
    /\ call.positionSize = T(1000000)
    /\ call.leverage = Rat(1, 2)
    /\ call.stopLoss = T(0)
    /\ call.takeProfit = Undef
    /\ Len(result.errors) = 2

\* the outputs that do not depend on the market price
PricelessOutputs ==
    {"averageEntryPrice", "totalSize", "riskAmount", "rewardAmount",
     "riskRewardRatio", "liquidationPrice"}

\* C22: with neither a live nor a stored price, calculateAdjustedPosition
\* returns pnl and pnlPercentage undefined, and projected does so without a
\* live price; average entry price, size, risk, reward, ratio and liquidation
\* price are what they are when a price is present.
C22_MissingPriceOmitsPnlOnly ==
    /\ (Returned("calculateAdjustedPosition") /\ call.currentPrice = Undef
          /\ call.originalPosition.currentPrice = Undef) =>
           LET priced == calculateAdjustedPosition(call.originalPosition,
                                                   call.adjustment, T(115))
           IN  /\ result.pnl = Undef
               /\ result.pnlPercentage = Undef
               /\ \A output \in PricelessOutputs : result[output] = priced[output]
    /\ (Returned("projected") /\ call.currentPrice = Undef) =>
           LET priced == projected(projectedPosition(call.originalPosition.entries,
                                                     call.adjustment),
                                   call.originalPosition.stopLoss,
                                   call.originalPosition.sideEntry,
                                   TakeProfitText(call.adjustment), T(115))
           IN  /\ result.pnlUSD = Undef
               /\ result.pnlPercentage = Undef
               /\ \A output \in PricelessOutputs : result[output] = priced[output]

\* a leveraged Long with a stop-loss and a take-profit has been adjusted with
\* no price known
C22_Witness_NoPriceKnown ==
    /\ Returned("calculateAdjustedPosition")
    /\ call.currentPrice = Undef
    /\ call.originalPosition.currentPrice = Undef
    /\ result.pnl = Undef
    /\ Gt(result.riskAmount, Zero)
    /\ Gt(result.rewardAmount, Zero)
    /\ result.liquidationPrice # Undef

\* C25: calculateAdjustedPosition computes the reward with the adjustment's
\* takeProfit when it has one and with the position's otherwise: the reward
\* and the ratio are those of the same position holding that take-profit
\* itself, the reward is positive only when that take-profit lies on the
\* profit side of the new average price of an open position, and with no
\* take-profit at all the reward and the ratio are 0.
C25_TakeProfitOverride ==
    Returned("calculateAdjustedPosition") =>
        LET pos == call.originalPosition
            adj == call.adjustment
            effective == IF adj.takeProfit # Undef THEN adj.takeProfit
                         ELSE pos.takeProfit
            plain == calculateAdjustedPosition([pos EXCEPT !.takeProfit = effective],
                                               [adj EXCEPT !.takeProfit = Undef],
                                               call.currentPrice)
        IN  /\ result.rewardAmount = plain.rewardAmount
            /\ result.riskRewardRatio = plain.riskRewardRatio
            /\ Gt(result.rewardAmount, Zero) =>
                  /\ effective # Undef
                  /\ Gt(result.totalSize, Zero)
                  /\ OnProfitSide(effective, result.averageEntryPrice, pos.sideEntry)
            /\ effective = Undef =>
                  (result.rewardAmount = Zero /\ result.riskRewardRatio = Zero)

\* an adjustment with a take-profit of its own has been calculated for a
\* position that has another
C25_Witness_Overridden ==
    /\ Returned("calculateAdjustedPosition")
    /\ call.adjustment.takeProfit = T(130)
    /\ call.originalPosition.takeProfit = T(120)
    /\ call.originalPosition.stopLoss # Undef
    /\ Gt(result.rewardAmount, Zero)
    /\ Gt(result.riskRewardRatio, Zero)

====
